---- MODULE Spec2Model ----
(***************************************************************************)
(* Model of scripts/preprocess_html.py: the notebook preprocessing script  *)
(* that rewrites image links into MyST figures and marked-up sections      *)
(* into MyST admonitions.                                                  *)
(*                                                                         *)
(* A line of a cell is a string; the regular expressions of the script are *)
(* evaluated on the characters of the line.  The cursor i is 0-based, as   *)
(* in the script, so the script's lines[i] is lines[i + 1] here.           *)
(***************************************************************************)
EXTENDS Integers, Sequences, FiniteSets, TLC

VARIABLES
    pc,        \* position of the script
    doc,       \* 1-based position of 'dic' in the table of contents
    filename,  \* the script's global 'filename'
    conts,     \* conts["cells"]: the source of every cell of the open notebook
    cellid,    \* the script's global 'cellid' (0-based)
    lines,     \* the driver's 'lines'
    i,         \* the driver's cursor 'i'
    written,   \* positions of the ToC entries whose book/ file was dumped
    stdout,    \* what the script printed
    rerun      \* TRUE while the notebook is processed a second time

vars == <<pc, doc, filename, conts, cellid, lines, i, written, stdout, rerun>>

----------------------------------------------------------------------------
(* Bounds *)

MaxLen == 3          \* longest cell enumerated line by line
MaxContent == 2      \* most content lines inside an enumerated admonition
NumDocs == 2         \* entries of the table of contents
MaxCells == 2        \* most cells of one notebook

----------------------------------------------------------------------------
(* Strings and Python slices *)

\* The k-th character of s, "" when s has none.
Ch(s, k) == IF 1 <= k /\ k <= Len(s) THEN SubSeq(s, k, k) ELSE ""

\* The element of a one-element set.  { F(x) : x \in {e} } binds x to the value of
\* e, so that e is evaluated once where F uses it several times.
TheOne(S) == CHOOSE x \in S : TRUE

Min(S) == TheOne(UNION {{m \in T : \A y \in T : m <= y} : T \in {S}})

Max(S) == TheOne(UNION {{m \in T : \A y \in T : m >= y} : T \in {S}})

MatchAt(s, k, p) == k >= 1 /\ k + Len(p) - 1 <= Len(s) /\ SubSeq(s, k, k + Len(p) - 1) = p

\* Index of the first newline of s, Len(s) + 1 when it has none: where '.' stops.
FirstNL(s) == Min({k \in 1..Len(s) : Ch(s, k) = "\n"} \cup {Len(s) + 1})

\* Python's s[a:b] for 0 <= a, 0 <= b.
Slice(s, a, b) ==
    LET lo == IF a > Len(s) THEN Len(s) ELSE a
        hi == IF b > Len(s) THEN Len(s) ELSE b
    IN  IF lo >= hi THEN SubSeq(s, 1, 0) ELSE SubSeq(s, lo + 1, hi)

\* Python's s[a:]
SliceFrom(s, a) == Slice(s, a, Len(s))

----------------------------------------------------------------------------
(* image_to_figure *)

\* re.match(r"!\[(.*)\]\((res/(.*?)\.(.*?))\)", line): the groups, or matched = FALSE.
\* '.' does not match a newline, so the whole match lies before the first newline.
\* (.*) is greedy: the caption ends at the last "](res/" after which the rest
\* matches; the two (.*?) are lazy: the name ends at the first "." that a ")" follows
\* and the extension at the first ")" after it.
Closers(s, d) == {c \in (d + 1)..Len(s) : Ch(s, c) = ")"}

Dots(s, p) == {d \in (p + 6)..Len(s) : Ch(s, d) = "." /\ Closers(s, d) # {}}

CaptionEnds(s) == {p \in 3..Len(s) : MatchAt(s, p, "](res/") /\ Dots(s, p) # {}}

\* The groups of a match whose caption ends before p.
ImageGroups(s, p) ==
    TheOne({ [matched |-> TRUE,
              g1 |-> SubSeq(s, 3, p - 1),
              g2 |-> SubSeq(s, p + 2, Min(Closers(s, d)) - 1),
              g3 |-> SubSeq(s, p + 6, d - 1)] : d \in {Min(Dots(s, p))} })

ImageMatchInLine(s) ==
    IF MatchAt(s, 1, "![") /\ CaptionEnds(s) # {}
    THEN TheOne({ImageGroups(s, p) : p \in {Max(CaptionEnds(s))}})
    ELSE [matched |-> FALSE, g1 |-> "", g2 |-> "", g3 |-> ""]

ImageMatch(line) == TheOne({ImageMatchInLine(s) : s \in {SubSeq(line, 1, FirstNL(line) - 1)}})

\* The three backticks of a MyST fence.  A string of this module cannot hold a
\* backtick, so an apostrophe stands for it: neither character occurs in a pattern
\* of the script or in a line of the cells below, so no match depends on it.
Fence == "'''"

\* The six lines of a MyST figure (new_lines).
FigureLines(caption, path, name) ==
    << Fence \o "{figure} " \o path \o "\n",
       "---\n",
       "name: " \o name \o "\n",
       "---\n",
       caption \o "\n",
       Fence \o "\n" >>

\* image_to_figure with the cursor left on the last line of the figure, the
\* line the driver's advance by one would step over.
image_to_figure_on_last_line(ls, c) ==
    TheOne({ IF m.matched
             THEN LET new_lines == FigureLines(m.g1, "../" \o m.g2, m.g3)
                  IN  [lines |-> Slice(ls, 0, c) \o new_lines \o SliceFrom(ls, c + 1),
                       i |-> c + Len(new_lines) - 1]
             ELSE [lines |-> ls, i |-> c] : m \in {ImageMatch(ls[c + 1])} })

\* image_to_figure(lines, i), called with 0 <= i < len(lines).
image_to_figure(ls, c) ==
    TheOne({ IF m.matched
             THEN LET new_lines == FigureLines(m.g1, "../" \o m.g2, m.g3)
                  IN  [lines |-> Slice(ls, 0, c) \o new_lines \o SliceFrom(ls, c + 1),
                       i |-> c + Len(new_lines)]
             ELSE [lines |-> ls, i |-> c] : m \in {ImageMatch(ls[c + 1])} })

----------------------------------------------------------------------------
(* create_admonition *)

CUSTOM_ADMONITION_STYLES ==
    ("example" :> "tip") @@ ("rule" :> "tip") @@ ("exercise" :> "hint") @@ ("remark" :> "tip")

LowerCase == "abcdefghijklmnopqrstuvwxyz"

UpperCase == "ABCDEFGHIJKLMNOPQRSTUVWXYZ"

Digits == "0123456789"

\* \w of the re module, on the ASCII characters.
IsWordChar(c) ==
    \/ \E k \in 1..Len(LowerCase) : Ch(LowerCase, k) = c
    \/ \E k \in 1..Len(UpperCase) : Ch(UpperCase, k) = c
    \/ \E k \in 1..Len(Digits) : Ch(Digits, k) = c
    \/ c = "_"

ToUpper(c) ==
    IF \E k \in 1..Len(LowerCase) : Ch(LowerCase, k) = c
    THEN Ch(UpperCase, CHOOSE k \in 1..Len(LowerCase) : Ch(LowerCase, k) = c)
    ELSE c

ToLower(c) ==
    IF \E k \in 1..Len(UpperCase) : Ch(UpperCase, k) = c
    THEN Ch(LowerCase, CHOOSE k \in 1..Len(UpperCase) : Ch(UpperCase, k) = c)
    ELSE c

RECURSIVE LowerAll(_)
LowerAll(s) == IF s = "" THEN "" ELSE ToLower(Ch(s, 1)) \o LowerAll(SubSeq(s, 2, Len(s)))

\* str.capitalize(): the first character upper-cased, the others lower-cased.
Capitalize(s) == IF s = "" THEN "" ELSE ToUpper(Ch(s, 1)) \o LowerAll(SubSeq(s, 2, Len(s)))

HasSpace(s) == \E k \in 1..Len(s) : Ch(s, k) = " "

\* re.match(r"<!-- begin (.+?) (style=(\w+) )?-->", line): the groups, g3 = ""
\* when the optional group took no part.  (.+?) is lazy: the header ends before
\* the first space after which the rest matches; the optional group is tried first.
\* End of the run of \w characters of s that starts at q (q - 1 when it is empty).
WordEnd(s, q) == Min({k \in (q - 1)..Len(s) : k = Len(s) \/ ~IsWordChar(Ch(s, k + 1))})

\* "style=", one or more \w, " -->" at q: the optional group and what follows it.
StyleAt(s, q) ==
    /\ MatchAt(s, q, "style=")
    /\ \E w \in {WordEnd(s, q + 6)} : w >= q + 6 /\ MatchAt(s, w + 1, " -->")

\* Where group 1 can end: s[e + 1] is the space, and the rest matches after it.
HeaderEnds(s) ==
    {e \in 12..Len(s) : Ch(s, e + 1) = " " /\ (StyleAt(s, e + 2) \/ MatchAt(s, e + 2, "-->"))}

\* The groups of a match whose group 1 ends at e.
BeginGroups(s, e) ==
    [matched |-> TRUE,
     g1 |-> SubSeq(s, 12, e),
     g3 |-> IF StyleAt(s, e + 2) THEN SubSeq(s, e + 8, WordEnd(s, e + 8)) ELSE ""]

BeginMatchInLine(s) ==
    IF MatchAt(s, 1, "<!-- begin ") /\ HeaderEnds(s) # {}
    THEN TheOne({BeginGroups(s, e) : e \in {Min(HeaderEnds(s))}})
    ELSE [matched |-> FALSE, g1 |-> "", g3 |-> ""]

BeginMatch(line) == TheOne({BeginMatchInLine(s) : s \in {SubSeq(line, 1, FirstNL(line) - 1)}})

\* The style with the mapping looked up before the explicit style.
AdmonitionStyle_mapping_first(adm_header, g3) ==
    IF adm_header \in DOMAIN CUSTOM_ADMONITION_STYLES
    THEN CUSTOM_ADMONITION_STYLES[adm_header]
    ELSE IF g3 # "" THEN g3 ELSE adm_header

\* style of the admonition (lines 78-81)
AdmonitionStyle(adm_header, g3) ==
    IF g3 # "" THEN g3
    ELSE IF adm_header \in DOMAIN CUSTOM_ADMONITION_STYLES
         THEN CUSTOM_ADMONITION_STYLES[adm_header]
         ELSE adm_header

\* text of the admonition (line 82)
AdmonitionText(adm_header) ==
    IF ~HasSpace(adm_header) THEN Capitalize(adm_header) ELSE adm_header

end_match == "<!-- end -->\n"

\* lines.index(end_match), 0-based; -1 stands for the ValueError.
IndexOfEnd(ls) ==
    TheOne({ IF K = {} THEN -1 ELSE Min(K) - 1 : K \in {{k \in 1..Len(ls) : ls[k] = end_match}} })

\* re.match(r"^ >( |\n)(.*)$", line): group 2, or matched = FALSE.  '$' matches at
\* the end of the line or before a newline that ends it.
BqMatch(line) ==
    IF MatchAt(line, 1, " > ") \/ MatchAt(line, 1, " >\n")
    THEN TheOne({ IF FirstNL(r) >= Len(r)
                  THEN [matched |-> TRUE, g2 |-> SubSeq(r, 1, FirstNL(r) - 1)]
                  ELSE [matched |-> FALSE, g2 |-> ""] : r \in {SubSeq(line, 4, Len(line))} })
    ELSE [matched |-> FALSE, g2 |-> ""]

\* content_lines with each quoted line unwrapped on its own.
ContentLines_line_by_line(intermediate_lines) ==
    [k \in 1..Len(intermediate_lines) |->
        TheOne({ IF bq.matched THEN bq.g2 \o "\n" ELSE intermediate_lines[k] :
                   bq \in {BqMatch(intermediate_lines[k])} })]

\* content_lines (lines 95-99)
ContentLines(intermediate_lines) ==
    TheOne({ IF \A k \in 1..Len(bq_matches) : bq_matches[k].matched
             THEN [k \in 1..Len(bq_matches) |-> bq_matches[k].g2 \o "\n"]
             ELSE intermediate_lines :
               bq_matches \in {[k \in 1..Len(intermediate_lines) |-> BqMatch(intermediate_lines[k])]} })

\* matching_line with the final line taken as the end without the test of line 88.
MatchingLine_unchecked(ls) ==
    TheOne({ IF k >= 0 THEN k ELSE Len(ls) - 1 : k \in {IndexOfEnd(ls)} })

\* matching_line (lines 84-92), 0-based; -1 when the script exits.
MatchingLine(ls) ==
    TheOne({ IF k >= 0 THEN k
             ELSE IF ls[Len(ls)] = SubSeq(end_match, 1, Len(end_match) - 1) THEN Len(ls) - 1
             ELSE -1 : k \in {IndexOfEnd(ls)} })

\* create_admonition(lines, i), called with 0 <= i < len(lines).  exits = TRUE is
\* the sys.exit(1) of line 92, after the print of line 91 (text is what it names).
\* Lines 94-108: the admonition of the section that m begins and that the line
\* matching_line ends.
Admonition(ls, c, m, matching_line) ==
    TheOne({ [lines |-> Slice(ls, 0, c)
                        \o << Fence \o "{admonition} " \o text \o " \n",
                              ":class: " \o AdmonitionStyle(m.g1, m.g3) \o "\n" >>
                        \o ContentLines(Slice(ls, c + 3, matching_line))
                        \o << Fence \o "\n" >>
                        \o SliceFrom(ls, matching_line + 1),
              i |-> matching_line,
              exits |-> FALSE,
              text |-> text] : text \in {AdmonitionText(m.g1)} })

create_admonition(ls, c) ==
    TheOne({ IF m.matched
             THEN TheOne({ IF matching_line < 0
                           THEN [lines |-> ls, i |-> c, exits |-> TRUE, text |-> AdmonitionText(m.g1)]
                           ELSE Admonition(ls, c, m, matching_line) :
                             matching_line \in {MatchingLine(ls)} })
             ELSE [lines |-> ls, i |-> c, exits |-> FALSE, text |-> ""] :
               m \in {BeginMatch(ls[c + 1])} })

----------------------------------------------------------------------------
(* The inputs: the table of contents and the cells of the notebooks *)

\* An entry of book/_toc.yml, with a "file" key or without one.
TocEntries == {[file |-> "contents/intro"], [url |-> "https://example.org"]}

\* Path(s).name: what follows the last "/".
PathName(s) == SubSeq(s, Max({k \in 1..Len(s) : Ch(s, k) = "/"} \cup {0}) + 1, Len(s))

\* "![C](res/N.E)" followed by 'tail'.
ImageLine(C, N, E, tail) == "![" \o C \o "](res/" \o N \o "." \o E \o ")" \o tail

\* "<!-- begin NAME -->" or "<!-- begin NAME style=STYLE -->", STYLE = "" for none.
BeginLine(NAME, STYLE) ==
    "<!-- begin " \o NAME \o " " \o (IF STYLE = "" THEN "" ELSE "style=" \o STYLE \o " ") \o "-->\n"

\* The image references of the cells: caption, name, extension, rest of the line.
ImageParts ==
    { [C |-> "c", N |-> "n", E |-> "e", tail |-> "\n"],
      [C |-> "c", N |-> "n", E |-> "e", tail |-> ""],
      [C |-> "Fig. 1 (a)", N |-> "apl_logo", E |-> "png", tail |-> " text\n"] }

\* The begin delimiters of the cells: the name and the explicit style.
BeginHeaders ==
    { [NAME |-> "example", STYLE |-> ""],
      [NAME |-> "rule", STYLE |-> ""],
      [NAME |-> "exercise", STYLE |-> ""],
      [NAME |-> "remark", STYLE |-> ""],
      [NAME |-> "note", STYLE |-> ""],
      [NAME |-> "myNote", STYLE |-> ""],
      [NAME |-> "custom", STYLE |-> "warning"],
      [NAME |-> "example", STYLE |-> "danger_2"],
      [NAME |-> "pro tip", STYLE |-> ""],
      [NAME |-> "pro tip", STYLE |-> "hint"] }

ImageLines == {ImageLine(p.C, p.N, p.E, p.tail) : p \in ImageParts}

BeginLines == {BeginLine(b.NAME, b.STYLE) : b \in BeginHeaders}

Img == ImageLine("c", "n", "e", "\n")

ExampleBegin == BeginLine("example", "")

\* The end delimiter as the last line of a cell, which has no newline.
EndNoNewline == "<!-- end -->"

\* Lines that end with a newline and may stand anywhere in a cell.
CorePool ==
    {Img, ImageLine("Fig. 1 (a)", "apl_logo", "png", " text\n"), "![c](img/n.e)\n",
     ExampleBegin, end_match, "x\n"}

\* Lines that have no newline: only the last line of a cell can be one.
LastPool == {EndNoNewline, ImageLine("c", "n", "e", "")}

\* Lines between the delimiters of an admonition.
ContentPool == {" > x\n", " >\n", "x\n", " >y\n"}

SeqsUpTo(S, n) == UNION {[1..k -> S] : k \in 0..n}

\* Every arrangement of at most MaxLen lines.
ShortCells ==
    SeqsUpTo(CorePool, MaxLen)
    \cup {Append(c, l) : c \in SeqsUpTo(CorePool, MaxLen - 1), l \in LastPool}

\* A delimited section with at most MaxContent content lines after the two lines
\* that follow the begin line, between at most one line before and some after.
AdmonitionCells ==
    { pre \o <<ExampleBegin, "\n", " > **Example**\n">> \o content \o tl :
        pre \in {<<>>, <<"x\n">>, <<Img>>},
        content \in SeqsUpTo(ContentPool, MaxContent),
        tl \in {<<end_match>>, <<EndNoNewline>>, <<end_match, "x\n">>,
                <<end_match, Img, "x\n">>, <<end_match, ExampleBegin>>} }

\* Every begin delimiter, closed at once or never.
StyleCells == {<<l, end_match>> : l \in BeginLines} \cup {<<l, "x\n">> : l \in BeginLines}

CellSources == ShortCells \cup AdmonitionCells \cup StyleCells

\* Cells of the notebooks that have several.
SampleCells == {<<"x\n">>, <<Img, "x\n">>, <<ExampleBegin, "x\n">>, <<ExampleBegin, end_match>>}

\* conts["cells"] of the notebooks: one cell of any source, or at most MaxCells
\* cells of the samples.
Notebooks == {<<c>> : c \in CellSources} \cup SeqsUpTo(SampleCells, MaxCells)

\* The model stops growing a cell past this length.  Only a cell the driver
\* would grow without end gets there: CapOnlyStopsRepeats.
MaxLines == 6 * MaxLen + 6

----------------------------------------------------------------------------
(* The script *)

Init ==
    /\ pc = "start"
    /\ doc = 1
    /\ filename = ""
    /\ conts = <<>>
    /\ cellid = 0
    /\ lines = <<>>
    /\ i = 0
    /\ written = {}
    /\ stdout = <<>>
    /\ rerun = FALSE

\* Lines 16-21: open book/_toc.yml, or report and exit.
OpenToc ==
    /\ pc = "start"
    /\ \/ /\ pc' = "for_dic"
          /\ UNCHANGED stdout
       \/ /\ stdout' = Append(stdout, "Could not open ToC.")
          /\ pc' = "exit0"
    /\ UNCHANGED <<doc, filename, conts, cellid, lines, i, written, rerun>>

\* Lines 112-120: the next entry of the table of contents; one without a "file"
\* key is skipped, the notebook of another is loaded.
ForDic ==
    /\ pc = "for_dic"
    /\ doc <= NumDocs
    /\ \E dic \in TocEntries :
         IF "file" \notin DOMAIN dic
         THEN /\ doc' = doc + 1
              /\ UNCHANGED <<pc, filename, conts, cellid>>
         ELSE /\ filename' = PathName(dic.file)
              /\ \E nb \in Notebooks : conts' = nb
              /\ cellid' = 0
              /\ pc' = "for_cell"
              /\ UNCHANGED doc
    /\ UNCHANGED <<lines, i, written, stdout, rerun>>

\* Line 112: the table of contents is exhausted, the script ends.
EndOfToc ==
    /\ pc = "for_dic"
    /\ doc > NumDocs
    /\ pc' = "done"
    /\ UNCHANGED <<doc, filename, conts, cellid, lines, i, written, stdout, rerun>>

\* Lines 122-124: the next cell of the notebook.
ForCell ==
    /\ pc = "for_cell"
    /\ cellid < Len(conts)
    /\ lines' = conts[cellid + 1]
    /\ i' = 0
    /\ pc' = "while"
    /\ UNCHANGED <<doc, filename, conts, cellid, written, stdout, rerun>>

\* Lines 133-134: every cell is done, the notebook is dumped under book/.  What
\* the script holds of this notebook is not read again: lines 114-124 assign
\* filename, conts, cellid, lines and i before their next use.
DumpNotebook ==
    /\ pc = "for_cell"
    /\ cellid >= Len(conts)
    /\ written' = written \cup {doc}
    /\ doc' = doc + 1
    /\ filename' = ""
    /\ conts' = <<>>
    /\ cellid' = 0
    /\ lines' = <<>>
    /\ i' = 0
    /\ rerun' = FALSE
    /\ pc' = "for_dic"
    /\ UNCHANGED stdout

\* Lines 125 and 131: the test of the while loop; past the last line the cell
\* gets the transformed lines.
While ==
    /\ pc = "while"
    /\ IF i < Len(lines)
       THEN /\ pc' = "image_to_figure"
            /\ UNCHANGED <<conts, cellid>>
       ELSE /\ conts' = [conts EXCEPT ![cellid + 1] = lines]
            /\ cellid' = cellid + 1
            /\ pc' = "for_cell"
    /\ UNCHANGED <<doc, filename, lines, i, written, stdout, rerun>>

\* Line 127.
ImageToFigure ==
    /\ pc = "image_to_figure"
    /\ \E r \in {image_to_figure(lines, i)} :
         /\ lines' = r.lines
         /\ i' = r.i
    /\ pc' = "create_admonition"
    /\ UNCHANGED <<doc, filename, conts, cellid, written, stdout, rerun>>

\* Line 128: lines[i] of line 75 raises IndexError past the last line; the
\* admonition with no end prints and exits (lines 91-92).
CreateAdmonition ==
    /\ pc = "create_admonition"
    /\ IF i >= Len(lines)
       THEN /\ pc' = "IndexError"
            /\ UNCHANGED <<lines, i, stdout>>
       ELSE \E r \in {create_admonition(lines, i)} :
                IF r.exits
                THEN /\ stdout' = Append(stdout, r.text \o " has no closing 'end' in cell "
                                            \o ToString(cellid) \o " in file " \o filename)
                     /\ pc' = "exit1"
                     /\ UNCHANGED <<lines, i>>
                ELSE /\ Len(r.lines) <= MaxLines
                     /\ lines' = r.lines
                     /\ i' = r.i
                     /\ pc' = "advance"
                     /\ UNCHANGED stdout
    /\ UNCHANGED <<doc, filename, conts, cellid, written, rerun>>

\* Line 129.
Advance ==
    /\ pc = "advance"
    /\ i' = i + 1
    /\ pc' = "while"
    /\ UNCHANGED <<doc, filename, conts, cellid, lines, written, stdout, rerun>>

\* The script run again on the notebook it has transformed: the cells it is about
\* to dump are the cells it loads.
RunAgain ==
    /\ pc = "for_cell"
    /\ cellid >= Len(conts)
    /\ conts # <<>>
    /\ ~rerun
    /\ cellid' = 0
    /\ rerun' = TRUE
    /\ UNCHANGED <<pc, doc, filename, conts, lines, i, written, stdout>>

Next ==
    \/ OpenToc
    \/ ForDic
    \/ EndOfToc
    \/ ForCell
    \/ DumpNotebook
    \/ While
    \/ ImageToFigure
    \/ CreateAdmonition
    \/ Advance

Spec == Init /\ [][Next]_vars

\* The script is sequential: it takes its next step whenever it has one.
FairSpec == Spec /\ WF_vars(Next)

NextTwice == Next \/ RunAgain

SpecTwice == Init /\ [][NextTwice]_vars

----------------------------------------------------------------------------
(* What the claims are checked against: the delimiters and the expected    *)
(* lines, written out from the parts the lines of the cells are built of.  *)

\* The figure block of the image reference built of the parts p.
ExpectedFigure(p) ==
    << Fence \o "{figure} ../res/" \o p.N \o "." \o p.E \o "\n",
       "---\n",
       "name: " \o p.N \o "\n",
       "---\n",
       p.C \o "\n",
       Fence \o "\n" >>

\* The style of a begin delimiter: the explicit one, else the default of the
\* four known names, else the name.
ExpectedStyle(b) ==
    IF b.STYLE # "" THEN b.STYLE
    ELSE CASE b.NAME = "example" -> "tip"
           [] b.NAME = "rule" -> "tip"
           [] b.NAME = "exercise" -> "hint"
           [] b.NAME = "remark" -> "tip"
           [] OTHER -> b.NAME

\* The label of a begin delimiter: the name with a space as it is, another name
\* capitalized (as str.capitalize does: "myNote" gives "Mynote").
ExpectedLabel(b) ==
    CASE b.NAME = "example" -> "Example"
      [] b.NAME = "rule" -> "Rule"
      [] b.NAME = "exercise" -> "Exercise"
      [] b.NAME = "remark" -> "Remark"
      [] b.NAME = "note" -> "Note"
      [] b.NAME = "myNote" -> "Mynote"
      [] b.NAME = "custom" -> "Custom"
      [] b.NAME = "pro tip" -> "pro tip"

\* The cursor is on a line and that line is a begin delimiter.
AtBegin == i < Len(lines) /\ lines[i + 1] \in BeginLines

HeaderAtCursor == CHOOSE b \in BeginHeaders : lines[i + 1] = BeginLine(b.NAME, b.STYLE)

\* The sequence has a line that is the end delimiter followed by a newline.
HasEndLine == \E k \in 1..Len(lines) : lines[k] = "<!-- end -->\n"

\* 0-based index of the first such line.
FirstEndLine == (CHOOSE k \in 1..Len(lines) :
                    lines[k] = "<!-- end -->\n" /\ \A j \in 1..(k - 1) : lines[j] # "<!-- end -->\n") - 1

\* The last line is the end delimiter without a newline.
EndsWithEnd == Len(lines) > 0 /\ lines[Len(lines)] = "<!-- end -->"

\* 0-based index of the end line of the admonition that begins at the cursor.
EndIndex == IF HasEndLine THEN FirstEndLine ELSE Len(lines) - 1

\* The lines extracted as content: lines[i+3 .. EndIndex-1].
Extracted == IF i + 3 < EndIndex THEN SubSeq(lines, i + 4, EndIndex) ELSE <<>>

\* A line carries the blockquote prefix: " >" and a space, or " >" and the newline.
HasBqPrefix(l) == Len(l) >= 3 /\ SubSeq(l, 1, 3) \in {" > ", " >\n"}

\* The line without the three characters of the prefix and with one newline at its end.
Unquoted(l) ==
    LET r == SubSeq(l, 4, Len(l))
    IN  IF r # "" /\ SubSeq(r, Len(r), Len(r)) = "\n" THEN r ELSE r \o "\n"

\* The step is create_admonition turning the section at the cursor into an admonition.
Replaces == pc = "create_admonition" /\ AtBegin /\ pc' = "advance"

----------------------------------------------------------------------------
(* Claims *)

C2_ReplacesSpan ==
    [][(Replaces /\ HasEndLine) =>
         /\ i < FirstEndLine
         /\ \E content \in [1..Len(Extracted) -> {lines'[k] : k \in 1..Len(lines')}] :
                lines' = SubSeq(lines, 1, i)
                         \o << Fence \o "{admonition} " \o ExpectedLabel(HeaderAtCursor) \o " \n",
                               ":class: " \o ExpectedStyle(HeaderAtCursor) \o "\n" >>
                         \o content
                         \o << Fence \o "\n" >>
                         \o SubSeq(lines, FirstEndLine + 2, Len(lines))]_vars

\* When the first end line comes after the begin line, the span is replaced as
\* C2 says.
ReplacesSpanWhenEndFollows ==
    [][(Replaces /\ HasEndLine /\ i < FirstEndLine) =>
         \E content \in [1..Len(Extracted) -> {lines'[k] : k \in 1..Len(lines')}] :
            lines' = SubSeq(lines, 1, i)
                     \o << Fence \o "{admonition} " \o ExpectedLabel(HeaderAtCursor) \o " \n",
                           ":class: " \o ExpectedStyle(HeaderAtCursor) \o "\n" >>
                     \o content
                     \o << Fence \o "\n" >>
                     \o SubSeq(lines, FirstEndLine + 2, Len(lines))]_vars

\* C3: the class line of the admonition names the explicit style, else the
\* default of the name, else the name; the fence names the name as it is when it
\* has a space and capitalized when it has none.
C3_StyleAndLabel ==
    [][Replaces =>
         /\ lines'[i + 1] = Fence \o "{admonition} " \o ExpectedLabel(HeaderAtCursor) \o " \n"
         /\ lines'[i + 2] = ":class: " \o ExpectedStyle(HeaderAtCursor) \o "\n"]_vars

\* The admonition of "<!-- begin pro tip style=hint -->" has been written.
C3_Witness ==
    /\ pc = "advance"
    /\ lines = << Fence \o "{admonition} pro tip \n", ":class: hint\n", Fence \o "\n" >>

\* C4: when every extracted line carries the blockquote prefix, the content
\* lines are the extracted lines without it; when one does not, they are the
\* extracted lines; there are as many content lines as extracted lines.
C4_AllOrNothing ==
    [][Replaces =>
         LET n == Len(Extracted)
         IN  /\ Len(lines') = i + 2 + n + 1 + (Len(lines) - EndIndex - 1)
             /\ \A k \in 1..n :
                  lines'[i + 2 + k] =
                     IF \A j \in 1..n : HasBqPrefix(Extracted[j])
                     THEN Unquoted(Extracted[k])
                     ELSE Extracted[k]]_vars

\* Two quoted content lines have been unwrapped.
C4_Witness ==
    /\ pc = "advance"
    /\ conts[cellid + 1] = <<ExampleBegin, "\n", " > **Example**\n", " > x\n", " >\n", end_match>>
    /\ lines = << Fence \o "{admonition} Example \n", ":class: tip\n", "x\n", "\n", Fence \o "\n" >>

\* C5: at a begin line of a sequence with no end line and whose last line is not
\* the end delimiter, the script prints the message that names the admonition,
\* the cell and the file and exits with status 1; it has not dumped the notebook
\* and does nothing more, so what it dumped before stays and nothing else is.
C5_UnterminatedIsFatal ==
    /\ [][(pc = "create_admonition" /\ AtBegin /\ ~HasEndLine /\ ~EndsWithEnd) =>
            /\ pc' = "exit1"
            /\ stdout' = Append(stdout, ExpectedLabel(HeaderAtCursor) \o " has no closing 'end' in cell "
                                           \o ToString(cellid) \o " in file intro")
            /\ written' = written]_vars
    /\ [](pc = "exit1" => doc \notin written /\ stdout # <<>>)
    /\ [][pc # "exit1"]_vars

\* The second notebook has an admonition with no end in its second cell: the
\* first notebook is dumped, the second is not.
C5_Witness ==
    /\ pc = "exit1"
    /\ written = {1}
    /\ doc = 2
    /\ stdout = <<"Example has no closing 'end' in cell 1 in file intro">>

\* C6: a cell the driver loop has transformed is left as it is by the driver
\* loop run on it again.
C6_SecondRunIsNoOp ==
    (rerun /\ pc = "while" /\ i >= Len(lines)) => lines = conts[cellid + 1]

\* C7: each converter is called with the cursor on a line of the sequence, and
\* no cell raises IndexError.
C7_CursorInBounds ==
    /\ pc \in {"image_to_figure", "create_admonition"} => (0 <= i /\ i < Len(lines))
    /\ pc # "IndexError"

Inert(l) == ~ImageMatch(l).matched /\ ~BeginMatch(l).matched

\* The cursor is in the loop between the first end line and a begin line that
\* comes after it, with only inert lines from the one to the other.
Trapped ==
    /\ pc \in {"while", "image_to_figure", "create_admonition", "advance"}
    /\ HasEndLine
    /\ FirstEndLine <= i
    /\ \E b \in 0..(Len(lines) - 1) :
         /\ BeginMatch(lines[b + 1]).matched
         /\ IF pc = "advance" THEN i < b ELSE i <= b
         /\ \A k \in FirstEndLine..(b - 1) : Inert(lines[k + 1])

TrappedForEver == [][Trapped => Trapped']_vars

\* A begin line that comes after the end line the scan finds is never consumed:
\* create_admonition takes the cursor back to that end line, the sequence is at
\* least three lines longer, and the begin line is still in it, as far from the
\* last line as it was.
BeginLineComesBack ==
    [][(Replaces /\ HasEndLine /\ FirstEndLine < i) =>
         /\ i' = FirstEndLine
         /\ Len(lines') >= Len(lines) + 3
         /\ lines'[Len(lines') - (Len(lines) - i) + 1] = lines[i + 1]]_vars

\* C9: after an admonition closed after its begin line is written, the advance
\* by one does not put the cursor past the line that followed the end line.
C9_NoLineSkipped ==
    [][(Replaces /\ i < EndIndex /\ EndIndex + 1 < Len(lines)) =>
         i' + 1 <= Len(lines') - (Len(lines) - (EndIndex + 1))]_vars

\* C10: in the final source of a cell with no begin line, no line is an image
\* reference any more.
C10_EveryImageConverted ==
    (~rerun /\ pc = "while" /\ i >= Len(lines)
       /\ \A k \in 1..Len(conts[cellid + 1]) : conts[cellid + 1][k] \notin BeginLines)
    => \A k \in 1..Len(lines) : lines[k] \notin ImageLines

\* The length bound of the model stops create_admonition only at a begin line
\* that comes after the end line the scan finds, the cells that grow without end.
CapOnlyStopsRepeats ==
    (pc = "create_admonition" /\ i < Len(lines)
       /\ ~create_admonition(lines, i).exits
       /\ Len(create_admonition(lines, i).lines) > MaxLines)
    => (AtBegin /\ HasEndLine /\ FirstEndLine < i)

====
